---- MODULE Spec2Model ----
(***************************************************************************)
(* The four factorial programs of the TCO guide and the debug-stack        *)
(* trampoline of its README: factorial_trampoline (explicit loop),         *)
(* factorial_trampoline_with_debug (loop plus a vector of DebugFrames),    *)
(* factorial / factorial_helper (tail recursion), the standard recursive   *)
(* factorial, and factorial_cps (continuation passing).                    *)
(*                                                                         *)
(* long long values are kept at their width of 64 bits, as four 16-bit     *)
(* limbs, least significant first.  The programs are built by g++ without  *)
(* -ftrapv, so a product that does not fit keeps its low 64 bits.          *)
(***************************************************************************)
EXTENDS Integers, Sequences, FiniteSets, TLC

\* ---------------------------------------------------------------- bounds
\* The inputs are -NegN .. MaxN; 21! is the first factorial above 2^64.
MaxN == 22
NegN == 2
Inputs == (0 - NegN)..MaxN
\* Stack capacities, in frames.  factorial_cps(n) needs 2n frames at its peak.
MaxCap == 2 * MaxN
Capacities == 1..MaxCap

\* ------------------------------------------------------- 64-bit arithmetic
LimbBase == 2^16
One64 == <<1, 0, 0, 0>>
Zero64 == <<0, 0, 0, 0>>

\* a * m on long long, for an int m >= 0 promoted to long long: the low 64
\* bits of the product.  Every multiplication of the programs is guarded by
\* n > 1, so m is never negative.
Mul64(a, m) ==
    LET p1 == a[1] * m
        p2 == a[2] * m + (p1 \div LimbBase)
        p3 == a[3] * m + (p2 \div LimbBase)
        p4 == a[4] * m + (p3 \div LimbBase)
    IN  <<p1 % LimbBase, p2 % LimbBase, p3 % LimbBase, p4 % LimbBase>>

\* ------------------------------------------------------------------ state
VARIABLES
    input,          \* the int n every program is called with
    cap,            \* the capacity of the call stack, in frames
    tce,            \* whether the build eliminates tail calls
    \* factorial_trampoline
    current_state, tramp_pc, tramp_result, tramp_updates, tramp_frames,
    \* factorial_trampoline_with_debug
    current_n, current_acc, debug_stack, debug_pc, debug_result, debug_updates,
    \* factorial / factorial_helper
    helper_stack, helper_pc, helper_result,
    \* the standard recursive factorial
    naive_stack, naive_pc, naive_result,
    \* factorial_cps
    cps_stack, cps_pc, cps_result, cps_events, cps_built

envVars == <<input, cap, tce>>
trampVars == <<current_state, tramp_pc, tramp_result, tramp_updates, tramp_frames>>
debugVars == <<current_n, current_acc, debug_stack, debug_pc, debug_result, debug_updates>>
helperVars == <<helper_stack, helper_pc, helper_result>>
naiveVars == <<naive_stack, naive_pc, naive_result>>
cpsVars == <<cps_stack, cps_pc, cps_result, cps_events, cps_built>>
vars == <<envVars, trampVars, debugVars, helperVars, naiveVars, cpsVars>>

Top(s) == s[Len(s)]
Pop(s) == SubSeq(s, 1, Len(s) - 1)

\* ---------------------------------------------------- factorial_trampoline
\* State current_state = {n, 1};
TrampInit_zero(n) == [n |-> n, accumulator |-> Zero64]
TrampInit(n) == [n |-> n, accumulator |-> One64]

\* if (current_state.n <= 1)
TrampBase_strict(s) == s.n <= 0
TrampBase(s) == s.n <= 1

\* next_n = n - 1; next_accumulator = accumulator * n; current_state = {..}
TrampNextState_off(s) ==
    [n |-> s.n - 1, accumulator |-> Mul64(s.accumulator, s.n - 1)]
TrampNextState(s) ==
    [n |-> s.n - 1, accumulator |-> Mul64(s.accumulator, s.n)]

\* One pass of the loop that does not return: the state is replaced in
\* place and `continue` jumps to the loop head; no call is made.
TrampStep_recursive ==
    /\ tramp_pc = "loop"
    /\ ~TrampBase(current_state)
    /\ IF tramp_frames < cap
       THEN /\ current_state' = TrampNextState(current_state)
            /\ tramp_updates' = tramp_updates + 1
            /\ tramp_frames' = tramp_frames + 1
            /\ tramp_pc' = tramp_pc
       ELSE /\ tramp_pc' = "overflow"
            /\ UNCHANGED <<current_state, tramp_updates, tramp_frames>>
    /\ UNCHANGED <<tramp_result, envVars, debugVars, helperVars, naiveVars, cpsVars>>
TrampStep ==
    /\ tramp_pc = "loop"
    /\ ~TrampBase(current_state)
    /\ current_state' = TrampNextState(current_state)
    /\ tramp_updates' = tramp_updates + 1
    /\ UNCHANGED <<tramp_pc, tramp_result, tramp_frames>>
    /\ UNCHANGED <<envVars, debugVars, helperVars, naiveVars, cpsVars>>

\* The pass that meets the base case: return current_state.accumulator.
TrampReturn_spin ==
    /\ tramp_pc = "loop"
    /\ TrampBase(current_state)
    /\ UNCHANGED vars
TrampReturn ==
    /\ tramp_pc = "loop"
    /\ TrampBase(current_state)
    /\ tramp_result' = current_state.accumulator
    /\ tramp_pc' = "returned"
    /\ tramp_frames' = 0
    /\ UNCHANGED <<current_state, tramp_updates>>
    /\ UNCHANGED <<envVars, debugVars, helperVars, naiveVars, cpsVars>>

TrampNext == TrampStep \/ TrampReturn
TrampFinished == tramp_pc \in {"returned", "overflow"}

\* ----------------------------------------- factorial_trampoline_with_debug
\* DebugFrame frame = {current_n, current_acc, (int)debug_stack.size()};
DebugFrameOf_oneBased(n, acc, stack) ==
    [n |-> n, accumulator |-> acc, depth |-> Len(stack) + 1]
DebugFrameOf(n, acc, stack) ==
    [n |-> n, accumulator |-> acc, depth |-> Len(stack)]

\* next_acc = current_acc * current_n; next_n = current_n - 1;
DebugNextState_nFirst(n, acc) ==
    [n |-> n - 1, acc |-> Mul64(acc, n - 1)]
DebugNextState(n, acc) ==
    [n |-> n - 1, acc |-> Mul64(acc, n)]

\* The head of every pass of the loop: the frame is built and pushed.
DebugPush_afterFirst ==
    /\ debug_pc = "push"
    /\ debug_stack' =
          IF debug_updates = 0
          THEN debug_stack
          ELSE Append(debug_stack, DebugFrameOf(current_n, current_acc, debug_stack))
    /\ debug_pc' = "test"
    /\ UNCHANGED <<current_n, current_acc, debug_result, debug_updates>>
    /\ UNCHANGED <<envVars, trampVars, helperVars, naiveVars, cpsVars>>
DebugPush ==
    /\ debug_pc = "push"
    /\ debug_stack' =
          Append(debug_stack, DebugFrameOf(current_n, current_acc, debug_stack))
    /\ debug_pc' = "test"
    /\ UNCHANGED <<current_n, current_acc, debug_result, debug_updates>>
    /\ UNCHANGED <<envVars, trampVars, helperVars, naiveVars, cpsVars>>

\* if (current_n <= 1) { ... return current_acc; }
DebugReturn ==
    /\ debug_pc = "test"
    /\ current_n <= 1
    /\ debug_result' = current_acc
    /\ debug_pc' = "returned"
    /\ UNCHANGED <<current_n, current_acc, debug_stack, debug_updates>>
    /\ UNCHANGED <<envVars, trampVars, helperVars, naiveVars, cpsVars>>

\* The state update and `continue`.
DebugUpdate ==
    /\ debug_pc = "test"
    /\ ~(current_n <= 1)
    /\ current_n' = DebugNextState(current_n, current_acc).n
    /\ current_acc' = DebugNextState(current_n, current_acc).acc
    /\ debug_updates' = debug_updates + 1
    /\ debug_pc' = "push"
    /\ UNCHANGED <<debug_stack, debug_result>>
    /\ UNCHANGED <<envVars, trampVars, helperVars, naiveVars, cpsVars>>

DebugNext == DebugPush \/ DebugReturn \/ DebugUpdate

\* ------------------------------------------------ factorial, factorial_helper
\* A call in tail position: with tail-call elimination the callee's frame
\* takes the place of the caller's; without, it is pushed if the stack has
\* room.  The result is the new stack, or "overflow".
HasRoom(stack) == Len(stack) < cap
TailCall(stack, frame) ==
    IF tce THEN [stack EXCEPT ![Len(stack)] = frame]
    ELSE Append(stack, frame)
TailCallFits(stack) == tce \/ HasRoom(stack)

\* factorial(n): return factorial_helper(n, 1);
FactorialFrame(n) == [fn |-> "factorial", n |-> n, accumulator |-> One64]
HelperFirstArgs_zero(n) == [fn |-> "factorial_helper", n |-> n, accumulator |-> Zero64]
HelperFirstArgs(n) == [fn |-> "factorial_helper", n |-> n, accumulator |-> One64]

\* return factorial_helper(n - 1, accumulator * n);
HelperNextArgs(f) ==
    [fn |-> "factorial_helper", n |-> f.n - 1, accumulator |-> Mul64(f.accumulator, f.n)]

HelperEnter ==
    /\ helper_pc = "run"
    /\ Top(helper_stack).fn = "factorial"
    /\ IF TailCallFits(helper_stack)
       THEN /\ helper_stack' = TailCall(helper_stack, HelperFirstArgs(Top(helper_stack).n))
            /\ helper_pc' = helper_pc
       ELSE /\ helper_pc' = "overflow"
            /\ helper_stack' = helper_stack
    /\ UNCHANGED <<helper_result, envVars, trampVars, debugVars, naiveVars, cpsVars>>

HelperCall ==
    /\ helper_pc = "run"
    /\ Top(helper_stack).fn = "factorial_helper"
    /\ ~(Top(helper_stack).n <= 1)
    /\ IF TailCallFits(helper_stack)
       THEN /\ helper_stack' = TailCall(helper_stack, HelperNextArgs(Top(helper_stack)))
            /\ helper_pc' = helper_pc
       ELSE /\ helper_pc' = "overflow"
            /\ helper_stack' = helper_stack
    /\ UNCHANGED <<helper_result, envVars, trampVars, debugVars, naiveVars, cpsVars>>

\* if (n <= 1) return accumulator;
HelperBase ==
    /\ helper_pc = "run"
    /\ Top(helper_stack).fn = "factorial_helper"
    /\ Top(helper_stack).n <= 1
    /\ helper_result' = Top(helper_stack).accumulator
    /\ helper_stack' = Pop(helper_stack)
    /\ helper_pc' = IF Len(helper_stack) = 1 THEN "returned" ELSE "unwind"
    /\ UNCHANGED <<envVars, trampVars, debugVars, naiveVars, cpsVars>>

\* Each caller returns its callee's value unchanged.
HelperReturn ==
    /\ helper_pc = "unwind"
    /\ helper_stack' = Pop(helper_stack)
    /\ helper_pc' = IF Len(helper_stack) = 1 THEN "returned" ELSE "unwind"
    /\ UNCHANGED <<helper_result, envVars, trampVars, debugVars, naiveVars, cpsVars>>

HelperFinished == helper_pc \in {"returned", "overflow"}

\* ------------------------------------------- the standard recursive factorial
\* return n * factorial(n - 1): the frame stays, holding n, until the call
\* returns.  The call is not a tail call.
NaiveCall ==
    /\ naive_pc = "run"
    /\ ~(Top(naive_stack) <= 1)
    /\ IF HasRoom(naive_stack)
       THEN /\ naive_stack' = Append(naive_stack, Top(naive_stack) - 1)
            /\ naive_pc' = naive_pc
       ELSE /\ naive_pc' = "overflow"
            /\ naive_stack' = naive_stack
    /\ UNCHANGED <<naive_result, envVars, trampVars, debugVars, helperVars, cpsVars>>

\* if (n <= 1) return 1;
NaiveBase ==
    /\ naive_pc = "run"
    /\ Top(naive_stack) <= 1
    /\ naive_result' = One64
    /\ naive_stack' = Pop(naive_stack)
    /\ naive_pc' = IF Len(naive_stack) = 1 THEN "returned" ELSE "unwind"
    /\ UNCHANGED <<envVars, trampVars, debugVars, helperVars, cpsVars>>

\* The pending multiplication of the frame the value returns into.
NaiveReturn ==
    /\ naive_pc = "unwind"
    /\ naive_result' = Mul64(naive_result, Top(naive_stack))
    /\ naive_stack' = Pop(naive_stack)
    /\ naive_pc' = IF Len(naive_stack) = 1 THEN "returned" ELSE "unwind"
    /\ UNCHANGED <<envVars, trampVars, debugVars, helperVars, cpsVars>>

NaiveFinished == naive_pc \in {"returned", "overflow"}

\* ------------------------------------------------------------ factorial_cps
\* A Continuation is the list of the n its closures captured, the one that
\* fires first at the head; the identity lambda of main is the empty list.
\* A frame is a call of factorial_cps (n, k), of a next_k closure (captured
\* n and k, argument sub_result) or of identity (argument final_result).
Identity == <<>>

\* Continuation next_k = [=](long long sub_result) { return k(n * sub_result); };
MakeCont_outermost(n, k) == k \o <<n>>
MakeCont(n, k) == <<n>> \o k

CpsFrame(n, k) == [fn |-> "factorial_cps", n |-> n, k |-> k, arg |-> Zero64]

\* return factorial_cps(n - 1, next_k);
CpsCallee_sameK(f) == CpsFrame(f.n - 1, f.k)
CpsCallee(f) == CpsFrame(f.n - 1, MakeCont(f.n, f.k))

\* The frame of the call k(v).
ContFrame(k, v) ==
    IF k = Identity
    THEN [fn |-> "identity", n |-> 0, k |-> Identity, arg |-> v]
    ELSE [fn |-> "next_k", n |-> Head(k), k |-> Tail(k), arg |-> v]

\* What the call k(v) writes on entry: the closure prints its line; the
\* identity lambda prints nothing and is logged for the order alone.
ContEvent(k, v) ==
    IF k = Identity
    THEN [ev |-> "identity", n |-> 0, value |-> v]
    ELSE [ev |-> "cont", n |-> Head(k), value |-> v]

\* The step of a factorial_cps frame with n > 1: the closure is built, then
\* factorial_cps(n - 1, next_k) is called.  The Makefile builds the program
\* without optimisation, so the call takes a new frame.
CpsDescend ==
    /\ cps_pc = "run"
    /\ Top(cps_stack).fn = "factorial_cps"
    /\ ~(Top(cps_stack).n <= 1)
    /\ cps_built' = Append(cps_built, Top(cps_stack).n)
    /\ IF HasRoom(cps_stack)
       THEN /\ cps_stack' = Append(cps_stack, CpsCallee(Top(cps_stack)))
            /\ cps_events' = Append(cps_events,
                  [ev |-> "enter", n |-> Top(cps_stack).n - 1, value |-> Zero64])
            /\ cps_pc' = cps_pc
       ELSE /\ cps_pc' = "overflow"
            /\ UNCHANGED <<cps_stack, cps_events>>
    /\ UNCHANGED <<cps_result, envVars, trampVars, debugVars, helperVars, naiveVars>>

\* if (n <= 1) return k(1);
CpsBase ==
    /\ cps_pc = "run"
    /\ Top(cps_stack).fn = "factorial_cps"
    /\ Top(cps_stack).n <= 1
    /\ LET k == Top(cps_stack).k
           said == Append(cps_events,
                      [ev |-> "base", n |-> Top(cps_stack).n, value |-> One64])
       IN  IF HasRoom(cps_stack)
           THEN /\ cps_stack' = Append(cps_stack, ContFrame(k, One64))
                /\ cps_events' = Append(said, ContEvent(k, One64))
                /\ cps_pc' = cps_pc
           ELSE /\ cps_pc' = "overflow"
                /\ cps_events' = said
                /\ cps_stack' = cps_stack
    /\ UNCHANGED <<cps_result, cps_built, envVars, trampVars, debugVars, helperVars, naiveVars>>

\* The body of a next_k closure: return k(n * sub_result);
CpsContinue ==
    /\ cps_pc = "run"
    /\ Top(cps_stack).fn = "next_k"
    /\ LET f == Top(cps_stack)
           v == Mul64(f.arg, f.n)
       IN  IF HasRoom(cps_stack)
           THEN /\ cps_stack' = Append(cps_stack, ContFrame(f.k, v))
                /\ cps_events' = Append(cps_events, ContEvent(f.k, v))
                /\ cps_pc' = cps_pc
           ELSE /\ cps_pc' = "overflow"
                /\ UNCHANGED <<cps_stack, cps_events>>
    /\ UNCHANGED <<cps_result, cps_built, envVars, trampVars, debugVars, helperVars, naiveVars>>

\* The identity lambda of main: return final_result;
CpsIdentity ==
    /\ cps_pc = "run"
    /\ Top(cps_stack).fn = "identity"
    /\ cps_result' = Top(cps_stack).arg
    /\ cps_stack' = Pop(cps_stack)
    /\ cps_pc' = "unwind"
    /\ UNCHANGED <<cps_events, cps_built, envVars, trampVars, debugVars, helperVars, naiveVars>>

\* Every closure and every factorial_cps call returns its callee's value.
CpsReturn ==
    /\ cps_pc = "unwind"
    /\ cps_stack' = Pop(cps_stack)
    /\ cps_pc' = IF Len(cps_stack) = 1 THEN "returned" ELSE "unwind"
    /\ UNCHANGED <<cps_result, cps_events, cps_built>>
    /\ UNCHANGED <<envVars, trampVars, debugVars, helperVars, naiveVars>>


\* --------------------------------------------------------- specifications
\* Every program has just been called with the same n; C is the set of stack
\* capacities and T the set of builds (tail calls eliminated or not).
InitWith(C, T) ==
    /\ input \in Inputs
    /\ cap \in C
    /\ tce \in T
    /\ current_state = TrampInit(input)
    /\ tramp_pc = "loop"
    /\ tramp_result = Zero64
    /\ tramp_updates = 0
    /\ tramp_frames = 1
    /\ current_n = input
    /\ current_acc = One64
    /\ debug_stack = <<>>
    /\ debug_pc = "push"
    /\ debug_result = Zero64
    /\ debug_updates = 0
    /\ helper_stack = <<FactorialFrame(input)>>
    /\ helper_pc = "run"
    /\ helper_result = Zero64
    /\ naive_stack = <<input>>
    /\ naive_pc = "run"
    /\ naive_result = Zero64
    /\ cps_stack = <<CpsFrame(input, Identity)>>
    /\ cps_pc = "run"
    /\ cps_result = Zero64
    /\ cps_events = <<[ev |-> "enter", n |-> input, value |-> Zero64]>>
    /\ cps_built = <<>>

Init == InitWith(Capacities, BOOLEAN)

\* The programs are separate executables on disjoint state, so their steps
\* commute: they are run one after the other, each to its end.
HelperTurn == TrampFinished
NaiveTurn == TrampFinished /\ HelperFinished
CpsTurn == TrampFinished /\ HelperFinished /\ NaiveFinished
Next ==
    \/ TrampStep
    \/ TrampReturn
    \/ (HelperTurn /\ HelperEnter)
    \/ (HelperTurn /\ HelperCall)
    \/ (HelperTurn /\ HelperBase)
    \/ (HelperTurn /\ HelperReturn)
    \/ (NaiveTurn /\ NaiveCall)
    \/ (NaiveTurn /\ NaiveBase)
    \/ (NaiveTurn /\ NaiveReturn)
    \/ (CpsTurn /\ CpsDescend)
    \/ (CpsTurn /\ CpsBase)
    \/ (CpsTurn /\ CpsContinue)
    \/ (CpsTurn /\ CpsIdentity)
    \/ (CpsTurn /\ CpsReturn)

Spec == Init /\ [][Next]_vars

\* The plain trampoline and the debug trampoline side by side, interleaved
\* freely.  Neither makes a call, so one capacity and one build are enough.
InitPair == InitWith({MaxCap}, {FALSE})
NextPair == TrampNext \/ DebugNext
SpecPair == InitPair /\ [][NextPair]_vars

\* factorial_trampoline alone.  The process is single-threaded and nothing
\* suspends it, so a loop pass that can be taken is taken.
SpecTramp == InitPair /\ [][TrampNext]_vars /\ WF_vars(TrampNext)

\* ------------------------------------------------- the reference factorial
\* Exact arithmetic on naturals of any size: a list of 16-bit limbs, least
\* significant first, that grows by a limb whenever a carry is left over.
RECURSIVE BigMulFrom(_, _, _, _)
BigMulFrom(b, m, i, carry) ==
    IF i > Len(b)
    THEN (IF carry = 0 THEN <<>> ELSE <<carry>>)
    ELSE LET p == b[i] * m + carry
         IN  <<p % LimbBase>> \o BigMulFrom(b, m, i + 1, p \div LimbBase)
BigMul(b, m) == BigMulFrom(b, m, 1, 0)

\* lo * (lo + 1) * ... * hi, exactly, smallest factor first; 1 when lo > hi.
RECURSIVE BigProduct(_, _)
BigProduct(lo, hi) ==
    IF lo > hi THEN <<1>> ELSE BigMul(BigProduct(lo, hi - 1), hi)
BigFactorial(n) == BigProduct(1, n)

\* The residue modulo 2^64 of an exact natural.
Low64(b) == [i \in 1..4 |-> IF i <= Len(b) THEN b[i] ELSE 0]
ExceedsWord(b) == Len(b) > 4

Max(a, b) == IF a >= b THEN a ELSE b

\* ------------------------------------------------------------------ claims
\* C1: for every input n >= 1, the value factorial_trampoline(n) returns is
\* congruent to n! modulo 2^64: it is the low 64 bits of the exact factorial,
\* and the only way the call ends is by returning (nothing traps or reports an
\* overflow).
TrampolineIsFactorialMod64 ==
    /\ tramp_pc \in {"loop", "returned"}
    /\ (tramp_pc = "returned" /\ input >= 1)
          => tramp_result = Low64(BigFactorial(input))
\* factorial_trampoline has returned for an n whose factorial is above 2^64.
TrampolineWrappedWitness ==
    /\ tramp_pc = "returned"
    /\ input >= 1
    /\ ExceedsWord(BigFactorial(input))

\* C2: the call-stack depth of factorial_trampoline is one frame whatever n
\* is, with or without tail-call elimination, so no stack capacity is ever
\* exhausted by it; the standard recursive factorial holds one frame per
\* level, each with its pending factor, grows to depth n at the base case, and
\* ends in stack exhaustion exactly when n exceeds the capacity.
TrampolineConstantStack ==
    /\ tramp_frames <= 1
    /\ tramp_frames <= cap
    /\ tramp_pc # "overflow"
    /\ \A i \in DOMAIN naive_stack : naive_stack[i] = input - i + 1
    /\ (naive_pc = "run" /\ Top(naive_stack) <= 1)
          => Len(naive_stack) = Max(input, 1)
    /\ naive_pc = "overflow" => (input > cap /\ Len(naive_stack) = cap)
    /\ naive_pc \in {"unwind", "returned"} => input <= cap
\* The same n and the same capacity: the trampoline has returned after more
\* state updates than the stack has frames, the recursion has exhausted it.
StackContrastWitness ==
    /\ tramp_pc = "returned"
    /\ tramp_updates > cap
    /\ naive_pc = "overflow"
    /\ tce = FALSE

\* C3: when factorial_trampoline_with_debug returns, debug_stack holds one
\* frame more than the number of state updates performed: one per update and
\* one for the initial state.
DebugTraceLength ==
    debug_pc = "returned" => Len(debug_stack) = debug_updates + 1
\* The debug variant has returned after several state updates.
DebugTraceLengthWitness ==
    /\ debug_pc = "returned"
    /\ debug_updates >= 3

\* C4: the debug stack only observes.  Both variants return the same value
\* for the same n, and whenever they have performed the same number of state
\* updates, (current_n, current_acc) equals the plain trampoline's
\* (current_state.n, current_state.accumulator).
DebugIsObservational ==
    /\ (tramp_pc = "returned" /\ debug_pc = "returned")
          => debug_result = tramp_result
    /\ tramp_updates = debug_updates
          => /\ current_n = current_state.n
             /\ current_acc = current_state.accumulator
\* Both variants have returned for an n whose factorial is above 2^64.
DebugIsObservationalWitness ==
    /\ tramp_pc = "returned"
    /\ debug_pc = "returned"
    /\ ExceedsWord(BigFactorial(input))
    /\ debug_updates = input - 1

\* C7: for n = 1 and for n = 0 the trampoline ends at the base case at once:
\* no state update is ever applied, the value returned is 1, and the debug
\* variant leaves a trace of exactly one frame.
BaseCaseImmediate ==
    input \in {0, 1} =>
        /\ tramp_updates = 0
        /\ debug_updates = 0
        /\ tramp_pc = "returned" => tramp_result = One64
        /\ debug_pc = "returned"
              => (debug_result = One64 /\ Len(debug_stack) = 1)
\* Both variants have returned for n = 1.
BaseCaseImmediateWitness ==
    /\ input = 1
    /\ tramp_pc = "returned"
    /\ debug_pc = "returned"

\* C10: the debug trace is an append-only log.  A step leaves debug_stack as
\* it is or, at the head of a loop pass, appends the one frame (current_n,
\* current_acc, depth = length before the append); the push comes before the
\* termination test of its pass, so at the test the trace holds one frame per
\* pass begun; and the frame at index i (from 0) has depth i.
DebugFrameDepths ==
    /\ \A i \in DOMAIN debug_stack : debug_stack[i].depth = i - 1
    /\ debug_pc = "push" => Len(debug_stack) = debug_updates
    /\ debug_pc \in {"test", "returned"} => Len(debug_stack) = debug_updates + 1
DebugAppendStep ==
    \/ debug_stack' = debug_stack
    \/ /\ debug_pc = "push"
       /\ debug_pc' = "test"
       /\ debug_stack' = Append(debug_stack,
             [n |-> current_n, accumulator |-> current_acc, depth |-> Len(debug_stack)])
CpsConts == SelectSeq(cps_events, LAMBDA e : e.ev = "cont")
CpsEnters == SelectSeq(cps_events, LAMBDA e : e.ev = "enter")
\* The number of recursive steps taken: calls of factorial_cps after the first.
CpsSteps == Len(CpsEnters) - 1
Word(v) == <<v, 0, 0, 0>>

\* C5: no continuation is invoked before the base case; the base case invokes
\* its continuation first, with 1; the closures then fire in the reverse of
\* the order they were built in (built for the original n first, fired last),
\* and identity fires after all of them.  For n = 5: base case passes 1, the
\* closures of n = 2, 3, 4, 5 combine, and the final value is 120.
CpsUnwindOrder ==
    /\ \A i \in DOMAIN cps_events :
          cps_events[i].ev \in {"cont", "identity"}
             => \E j \in 1..(i - 1) : cps_events[j].ev = "base"
    /\ \A i \in DOMAIN cps_events :
          cps_events[i].ev = "base"
             => /\ \A j \in 1..(i - 1) : cps_events[j].ev = "enter"
                /\ i < Len(cps_events)
                      => /\ cps_events[i + 1].ev \in {"cont", "identity"}
                         /\ cps_events[i + 1].value = One64
    /\ \A j \in DOMAIN cps_built : cps_built[j] = input - j + 1
    /\ Len(CpsConts) <= Len(cps_built)
    /\ \A j \in DOMAIN CpsConts :
          CpsConts[j].n = cps_built[Len(cps_built) - j + 1]
    /\ \A i \in DOMAIN cps_events :
          cps_events[i].ev = "identity"
             => (i = Len(cps_events) /\ Len(CpsConts) = Len(cps_built))
    /\ (input = 5 /\ cps_pc = "returned")
          => /\ SubSeq(cps_events, 6, Len(cps_events)) =
                   << [ev |-> "base", n |-> 1, value |-> Word(1)],
                      [ev |-> "cont", n |-> 2, value |-> Word(1)],
                      [ev |-> "cont", n |-> 3, value |-> Word(2)],
                      [ev |-> "cont", n |-> 4, value |-> Word(6)],
                      [ev |-> "cont", n |-> 5, value |-> Word(24)],
                      [ev |-> "identity", n |-> 0, value |-> Word(120)] >>
             /\ cps_result = Word(120)
\* factorial_cps(5, identity) has returned.
CpsUnwindOrderWitness ==
    /\ input = 5
    /\ cps_pc = "returned"
    /\ Len(CpsConts) = 4

\* C6: factorial_cps(n, identity), factorial_trampoline(n) and factorial(n)
\* return the same 64-bit value for every n, 120 for n = 5.  The trampoline
\* and factorial_helper have multiplied by n, n-1, ..., down to the current
\* n + 1; the closure of n in factorial_cps receives (n-1)!, the product of
\* 2, 3, ..., n-1.
SameFunction ==
    /\ (tramp_pc = "returned" /\ helper_pc = "returned")
          => helper_result = tramp_result
    /\ (tramp_pc = "returned" /\ cps_pc = "returned")
          => cps_result = tramp_result
    /\ (input = 5 /\ tramp_pc = "returned") => tramp_result = Word(120)
    /\ current_state.accumulator = Low64(BigProduct(current_state.n + 1, input))
    /\ \A i \in DOMAIN helper_stack :
          helper_stack[i].fn = "factorial_helper"
             => helper_stack[i].accumulator =
                   Low64(BigProduct(helper_stack[i].n + 1, input))
    /\ \A j \in DOMAIN CpsConts :
          CpsConts[j].value = Low64(BigFactorial(CpsConts[j].n - 1))
\* The three programs have returned for an n whose factorial is above 2^64.
SameFunctionWitness ==
    /\ tramp_pc = "returned"
    /\ helper_pc = "returned"
    /\ cps_pc = "returned"
    /\ ExceedsWord(BigFactorial(input))

\* C8: the descent and the unwinding of factorial_cps, as built, keep the
\* number of active frames bounded by a constant: a call returns right after
\* launching the next, so never more than the launcher and the launched.
CpsConstantStack == Len(cps_stack) <= 2

\* C9: in the descent the continuation a factorial_cps call holds wraps
\* identity in as many closures as recursive steps were taken, frame by frame;
\* at the base case that is n - 1 closures for an initial n >= 1, none for
\* n <= 1.
CpsChainLength ==
    /\ \A i \in DOMAIN cps_stack :
          cps_stack[i].fn = "factorial_cps" => Len(cps_stack[i].k) = i - 1
    /\ (cps_pc = "run" /\ Top(cps_stack).fn = "factorial_cps")
          => /\ Len(Top(cps_stack).k) = CpsSteps
             /\ Top(cps_stack).n <= 1
                   => Len(Top(cps_stack).k) = (IF input >= 1 THEN input - 1 ELSE 0)
\* The base case is reached after several recursive steps.
CpsChainLengthWitness ==
    /\ cps_pc = "run"
    /\ Top(cps_stack).fn = "factorial_cps"
    /\ Top(cps_stack).n <= 1
    /\ input >= 3
    /\ CpsSteps = input - 1

\* ------------------------------------------ claims on the trampoline's loop
\* C11: for every input n, positive, zero or negative, factorial_trampoline
\* eventually returns.  Every loop pass that does not return lowers
\* current_state.n by exactly 1, so the updates done so far number input - n;
\* at return they are n - 1 for n >= 1 and none for n <= 1.
TrampCountdown ==
    /\ tramp_updates = input - current_state.n
    /\ tramp_pc = "returned"
          => tramp_updates = (IF input >= 1 THEN input - 1 ELSE 0)
TrampDecrement ==
    (tramp_pc' = "loop" /\ current_state' # current_state)
       => /\ current_state'.n = current_state.n - 1
          /\ tramp_updates' = tramp_updates + 1
TrampolineTerminates ==
    /\ <>(tramp_pc = "returned")
    /\ [](TrampCountdown)
    /\ [][TrampDecrement]_vars
\* factorial_trampoline has returned after n - 1 state updates, n >= 3.
TrampolineTerminatesWitness ==
    /\ tramp_pc = "returned"
    /\ input >= 3
    /\ tramp_updates = input - 1

\* acc * 1 * 2 * ... * k, exactly.
RECURSIVE BigTimesUpTo(_, _)
BigTimesUpTo(b, k) ==
    IF k <= 1 THEN b ELSE BigMul(BigTimesUpTo(b, k - 1), k)

\* C12: for an initial input N >= 1, at the head of every loop pass of
\* factorial_trampoline 1 <= current_state.n <= N and accumulator * n! is
\* congruent to N! modulo 2^64; equivalently the accumulator is the wrapped
\* product N * (N-1) * ... * (n+1).  The frames of factorial_helper, which the
\* loop replaces, satisfy the same.
StateInvariant(n, acc) ==
    /\ 1 <= n
    /\ n <= input
    /\ Low64(BigTimesUpTo(acc, n)) = Low64(BigFactorial(input))
    /\ acc = Low64(BigProduct(n + 1, input))
TrampolineLoopInvariant ==
    input >= 1 =>
        /\ tramp_pc = "loop"
              => StateInvariant(current_state.n, current_state.accumulator)
        /\ \A i \in DOMAIN helper_stack :
              (helper_pc = "run" /\ helper_stack[i].fn = "factorial_helper")
                 => StateInvariant(helper_stack[i].n, helper_stack[i].accumulator)
\* A loop head in mid-run whose accumulator has already wrapped.
TrampolineLoopInvariantWitness ==
    /\ tramp_pc = "loop"
    /\ current_state.n >= 2
    /\ current_state.n < input
    /\ ExceedsWord(BigProduct(current_state.n + 1, input))

====
